---------------------------- MODULE Spec2Model ----------------------------
(***************************************************************************)
(* A model of rlite-rs (src/src/lib.rs): the Rlite connection wrapper      *)
(* around the hirlite engine, the reply decoder Reply::new, and the        *)
(* submit / fetch / teardown operations.                                   *)
(*                                                                         *)
(* Byte strings are sequences of numbers 0..255.  A Rust String is the     *)
(* sequence of its UTF-8 bytes.  The engine (libhirlite, reached through   *)
(* the extern block) is not part of the sources: its operations are        *)
(* modelled from the interface description and the repository's tests.     *)
(***************************************************************************)
EXTENDS Integers, Sequences, FiniteSets, TLC

(***************************************************************************)
(* Bounds of the model.                                                    *)
(***************************************************************************)
MaxConns == 2
MaxWrites == 2
MaxReads == 2

(***************************************************************************)
(* Reply tags, lib.rs:26-31.                                               *)
(***************************************************************************)
RLITE_REPLY_STRING == 1
RLITE_REPLY_ARRAY == 2
RLITE_REPLY_INTEGER == 3
RLITE_REPLY_NIL == 4
RLITE_REPLY_STATUS == 5
RLITE_REPLY_ERROR == 6

(***************************************************************************)
(* The null pointer (0 as *mut _), lib.rs:122 and lib.rs:154.              *)
(***************************************************************************)
NULL == 0

(***************************************************************************)
(* Byte strings used by the model.                                         *)
(***************************************************************************)
B_set == <<115, 101, 116>>
B_get == <<103, 101, 116>>
B_ping == <<112, 105, 110, 103>>
B_other == <<120>>
B_1 == <<49>>
B_2 == <<50>>
B_OK == <<79, 75>>
B_PONG == <<80, 79, 78, 71>>
B_WrongArgs == <<119, 114, 111, 110, 103, 32, 110, 117, 109, 98, 101, 114, 32, 111, 102, 32, 97, 114, 103, 117, 109, 101, 110, 116, 115>>
B_PingErr == <<69, 82, 82, 32>> \o B_WrongArgs \o <<32, 102, 111, 114, 32, 39, 112, 105, 110, 103, 39, 32, 99, 111, 109, 109, 97, 110, 100>>
B_Unknown == <<85, 110, 107, 110, 111, 119, 110, 32, 114, 101, 112, 108, 121, 32, 116, 121, 112, 101, 32>>
B_Failed == <<70, 97, 105, 108, 101, 100>>

(***************************************************************************)
(* 64-bit integers.  TLC's integers are 32 bits wide, so a c_ulonglong is  *)
(* four 16-bit limbs, most significant first, and an i64 is a sign and a   *)
(* magnitude of four limbs.                                                *)
(***************************************************************************)
Limb == 256 * 256
U64(n) == <<0, 0, 0, n>>
U64Max == <<65535, 65535, 65535, 65535>>
U64Top == <<32768, 0, 0, 0>>

\* 2^64 - u, limb by limb (u # 0): complement every limb, then add one.
RECURSIVE AddOne(_, _)
AddOne(w, i) ==
    IF i = 0 THEN w
    ELSE IF w[i] + 1 < Limb THEN [w EXCEPT ![i] = w[i] + 1]
    ELSE AddOne([w EXCEPT ![i] = 0], i - 1)

TwosNegate(w) == AddOne([i \in 1..4 |-> (Limb - 1) - w[i]], 4)

\* A variant of the cast that saturates: values from 2^63 on become
\* i64::MAX.
AsI64_Saturating(u) ==
    IF u[1] < Limb \div 2
    THEN [neg |-> FALSE, mag |-> u]
    ELSE [neg |-> FALSE, mag |-> <<(Limb \div 2) - 1, Limb - 1, Limb - 1, Limb - 1>>]

\* `(*reply).integer as i64`, lib.rs:78: the same 64 bits read as two's
\* complement.
AsI64(u) ==
    IF u[1] < Limb \div 2
    THEN [neg |-> FALSE, mag |-> u]
    ELSE [neg |-> TRUE, mag |-> TwosNegate(u)]

(***************************************************************************)
(* enum Reply, lib.rs:45-51.                                               *)
(***************************************************************************)
Nil == [tag |-> "Nil"]
Integer(n) == [tag |-> "Integer", n |-> n]
Data(b) == [tag |-> "Data", bytes |-> b]
Status(s) == [tag |-> "Status", text |-> s]
Array(v) == [tag |-> "Array", items |-> v]

(***************************************************************************)
(* Result values.  Panic is the unwinding of a failed unwrap(): the call   *)
(* returns nothing to its caller.                                          *)
(***************************************************************************)
Ok(v) == [kind |-> "Ok", val |-> v]
Err(e) == [kind |-> "Err", err |-> e]
Panic == [kind |-> "Panic"]
Unit == <<>>

(***************************************************************************)
(* struct RliteReply, lib.rs:34-41.  st is the foreign buffer the pointer  *)
(* addresses and element the foreign pointer array.                        *)
(***************************************************************************)
RliteReply(t, i, s, e) ==
    [rtype |-> t, integer |-> i, len |-> Len(s), st |-> s,
     elements |-> Len(e), element |-> e]

StringRec(s) == RliteReply(RLITE_REPLY_STRING, U64(0), s, <<>>)
StatusRec(s) == RliteReply(RLITE_REPLY_STATUS, U64(0), s, <<>>)
ErrorRec(s) == RliteReply(RLITE_REPLY_ERROR, U64(0), s, <<>>)
NilRec == RliteReply(RLITE_REPLY_NIL, U64(0), <<>>, <<>>)
IntegerRec(u) == RliteReply(RLITE_REPLY_INTEGER, u, <<>>, <<>>)
ArrayRec(e) == RliteReply(RLITE_REPLY_ARRAY, U64(0), <<>>, e)
TagRec(t) == RliteReply(t, U64(0), <<>>, <<>>)

(***************************************************************************)
(* String::from_utf8 (lib.rs:71, lib.rs:74): Ok exactly for well-formed    *)
(* UTF-8 (Unicode table 3-7).                                              *)
(***************************************************************************)
Cont(b) == b >= 128 /\ b <= 191

RECURSIVE Utf8From(_, _)
Utf8From(s, i) ==
    IF i > Len(s) THEN TRUE
    ELSE LET b == s[i]
             n == Len(s) - i
         IN  IF b <= 127 THEN Utf8From(s, i + 1)
             ELSE IF b >= 194 /\ b <= 223
                  THEN n >= 1 /\ Cont(s[i + 1]) /\ Utf8From(s, i + 2)
             ELSE IF b >= 224 /\ b <= 239
                  THEN /\ n >= 2
                       /\ Cont(s[i + 1]) /\ Cont(s[i + 2])
                       /\ (b = 224 => s[i + 1] >= 160)
                       /\ (b = 237 => s[i + 1] <= 159)
                       /\ Utf8From(s, i + 3)
             ELSE IF b >= 240 /\ b <= 244
                  THEN /\ n >= 3
                       /\ Cont(s[i + 1]) /\ Cont(s[i + 2]) /\ Cont(s[i + 3])
                       /\ (b = 240 => s[i + 1] >= 144)
                       /\ (b = 244 => s[i + 1] <= 143)
                       /\ Utf8From(s, i + 4)
             ELSE FALSE

from_utf8(v) == IF Utf8From(v, 1) THEN Ok(v) ELSE Err(v)

\* Result::unwrap: the value, or a panic.
unwrap(r) == IF r.kind = "Ok" THEN Ok(r.val) ELSE Panic

\* A variant of str_to_vec that copies one byte too few.
str_to_vec_ShortCopy(str) == SubSeq(str.st, 1, str.len - 1)

(***************************************************************************)
(* str_to_vec!, lib.rs:53-61: a new vector holding the first len bytes of  *)
(* the foreign buffer.                                                     *)
(***************************************************************************)
str_to_vec(str) == SubSeq(str.st, 1, str.len)

(***************************************************************************)
(* format!("Unknown reply type {}", rtype), lib.rs:88: the decimal digits  *)
(* of a c_int, with a minus sign when negative.                            *)
(***************************************************************************)
RECURSIVE Digits(_)
Digits(n) ==
    IF n < 10 THEN <<48 + n>> ELSE Digits(n \div 10) \o <<48 + (n % 10)>>

Display(n) == IF n < 0 THEN <<45>> \o Digits(0 - n) ELSE Digits(n)

UnknownReplyType(rtype) == B_Unknown \o Display(rtype)

(***************************************************************************)
(* Reply::new, lib.rs:64-91.  The result is Ok(value), Err(message) or a   *)
(* panic; calls counts the invocations of Reply::new made, this one        *)
(* included.                                                               *)
(***************************************************************************)
Decoded(r, n) == [res |-> r, calls |-> n]

\* A variant of the Status arm that takes the bytes as they are (lossy or
\* unchecked conversion).
StatusArm_Unchecked(reply) == Ok(Status(str_to_vec(reply)))

\* The Status arm, lib.rs:70-72.
StatusArm(reply) ==
    LET s == unwrap(from_utf8(str_to_vec(reply)))
    IN  IF s.kind = "Ok" THEN Ok(Status(s.val)) ELSE Panic

\* The Error arm, lib.rs:73-76.
ErrorArm(reply) ==
    LET s == unwrap(from_utf8(str_to_vec(reply)))
    IN  IF s.kind = "Ok" THEN Err(s.val) ELSE Panic

\* A variant of the Nil arm that yields empty data.
NilArm_EmptyData == Ok(Data(<<>>))

\* The Nil arm, lib.rs:77.
NilArm == Ok(Nil)

\* The Integer arm, lib.rs:78: the unsigned field cast to i64.
IntegerArm(reply) == Ok(Integer(AsI64(reply.integer)))

\* A variant of the fallback arm that panics (unreachable!()).
UnknownArm_Panics(reply) == Panic

\* The fallback arm, lib.rs:88.
UnknownArm(reply) == Err(UnknownReplyType(reply.rtype))

RECURSIVE ReplyNew(_)
RECURSIVE ArrayLoop(_, _, _, _)

\* A variant of the loop that goes on after a child failed and returns the
\* array of the children that decoded.
RECURSIVE ArrayLoop_KeepsGoing(_, _, _, _)
ArrayLoop_KeepsGoing(reply, i, v, n) ==
    IF i > reply.elements THEN Decoded(Ok(Array(v)), n)
    ELSE LET c == ReplyNew(reply.element[i])
         IN  IF c.res.kind = "Ok"
             THEN ArrayLoop_KeepsGoing(reply, i + 1, Append(v, c.res.val),
                                       n + c.calls)
             ELSE ArrayLoop_KeepsGoing(reply, i + 1, v, n + c.calls)

\* A variant of the loop that builds the vector back to front.
RECURSIVE ArrayLoop_Reversed(_, _, _, _)
ArrayLoop_Reversed(reply, i, v, n) ==
    IF i > reply.elements THEN Decoded(Ok(Array(v)), n)
    ELSE LET c == ReplyNew(reply.element[i])
         IN  IF c.res.kind = "Ok"
             THEN ArrayLoop_Reversed(reply, i + 1, <<c.res.val>> \o v,
                                     n + c.calls)
             ELSE Decoded(c.res, n + c.calls)

\* The loop of the Array arm, lib.rs:83-86: i is the next index (from 1),
\* v the vector built so far, n the calls made so far.  try! returns the
\* first child result that is not Ok.
ArrayLoop(reply, i, v, n) ==
    IF i > reply.elements THEN Decoded(Ok(Array(v)), n)
    ELSE LET c == ReplyNew(reply.element[i])
         IN  IF c.res.kind = "Ok"
             THEN ArrayLoop(reply, i + 1, Append(v, c.res.val), n + c.calls)
             ELSE Decoded(c.res, n + c.calls)

ReplyNew(reply) ==
    IF reply.rtype = RLITE_REPLY_STRING
    THEN Decoded(Ok(Data(str_to_vec(reply))), 1)
    ELSE IF reply.rtype = RLITE_REPLY_STATUS THEN Decoded(StatusArm(reply), 1)
    ELSE IF reply.rtype = RLITE_REPLY_ERROR THEN Decoded(ErrorArm(reply), 1)
    ELSE IF reply.rtype = RLITE_REPLY_NIL THEN Decoded(NilArm, 1)
    ELSE IF reply.rtype = RLITE_REPLY_INTEGER THEN Decoded(IntegerArm(reply), 1)
    ELSE IF reply.rtype = RLITE_REPLY_ARRAY THEN ArrayLoop(reply, 1, <<>>, 1)
    ELSE Decoded(UnknownArm(reply), 1)

(***************************************************************************)
(* The engine behind the extern block, lib.rs:94-101.  Its code is not in  *)
(* the sources; what follows is its interface as the documentation and     *)
(* the tests (tests.rs) describe it.                                       *)
(***************************************************************************)
K1 == <<107>>
K2 == <<106>>
V1 == <<118>>
V2 == <<0, 255>>
Keys == {K1, K2}
Values == {V1, V2}
\* A database maps a key to <<>> (not set) or to <<v>>.
EmptyDb == [k \in Keys |-> <<>>]

\* The commands a caller submits: the empty command, ping with and without
\* extra arguments, set and get, and one command standing for the rest of
\* the engine's command set.
OtherCmd == <<B_other>>
Commands ==
    {<<>>, <<B_ping>>, <<B_ping, B_1, B_2>>, OtherCmd}
      \cup {<<B_set, k, v>> : k \in Keys, v \in Values}
      \cup {<<B_get, k>> : k \in Keys}

\* Reply records of the rest of the command set: an unknown tag, error
\* text that is and is not UTF-8, and arrays, flat and nested, that decode
\* to a value, hold an error, hold an unknown tag, or hold status text that
\* is not UTF-8.
OtherReplies ==
    { TagRec(7),
      ErrorRec(B_Failed),
      ErrorRec(<<69, 255>>),
      ArrayRec(<<StringRec(V1), IntegerRec(U64Top), ArrayRec(<<>>)>>),
      ArrayRec(<<NilRec, ErrorRec(B_PingErr), StringRec(V1)>>),
      ArrayRec(<<StringRec(V2), ArrayRec(<<StatusRec(B_OK), TagRec(9)>>), NilRec>>),
      ArrayRec(<<IntegerRec(U64Max), StatusRec(<<195>>)>>) }

\* What the engine executes for the modelled commands: the reply record and
\* the database afterwards (tests.rs:35-73).  A command with the wrong
\* number of arguments is answered by an error reply (tests.rs:35-42).
Arity(name) == IF name = B_set THEN 3 ELSE IF name = B_get THEN 2 ELSE 1

EngineExec(db, args) ==
    IF Len(args) # Arity(args[1]) \/ (args[1] # B_ping /\ args[2] \notin Keys)
    THEN [reply |-> ErrorRec(B_PingErr), db |-> db]
    ELSE IF args[1] = B_ping
    THEN [reply |-> StatusRec(B_PONG), db |-> db]
    ELSE IF args[1] = B_set
    THEN [reply |-> StatusRec(B_OK), db |-> [db EXCEPT ![args[2]] = <<args[3]>>]]
    ELSE [reply |-> IF db[args[2]] = <<>> THEN NilRec
                    ELSE StringRec(db[args[2]][1]),
          db |-> db]

EngineReplies(db, args) ==
    IF args = OtherCmd THEN {[reply |-> r, db |-> db] : r \in OtherReplies}
    ELSE {EngineExec(db, args)}

\* The arguments the engine reads (rliteAppendCommandArgv, lib.rs:97):
\* argvlen[i] bytes at the address argv[i], for i below argc.
EngineArgs(memory, argc, argv, argvlen) ==
    [i \in 1..argc |-> SubSeq(memory[argv[i]], 1, argvlen[i])]

\* rliteGetReply, lib.rs:98: the status, the reply pointer stored through
\* the out parameter and the queue afterwards.  A failure (-1) leaves the
\* queue as it is; an empty queue gives status 0 and a null reply.
rliteGetReply(q) ==
    {[status |-> -1, reply |-> NULL, queue |-> q]}
      \cup (IF q = <<>>
            THEN {[status |-> 0, reply |-> NULL, queue |-> q]}
            ELSE {[status |-> 0, reply |-> Head(q), queue |-> Tail(q)]})

\* rliteAppendCommandArgv, lib.rs:97: a non-zero status rejects the command
\* and changes nothing; status 0 executes it and appends its reply record
\* (allocated at the next heap address) to the queue.  A command of no
\* arguments is always rejected.
rliteAppendCommandArgv(d, h, q, memory, argc, argv, argvlen) ==
    {[status |-> -1, db |-> d, heap |-> h, queue |-> q]}
      \cup (IF argc = 0 THEN {}
            ELSE {[status |-> 0, db |-> e.db, heap |-> Append(h, e.reply),
                   queue |-> Append(q, Len(h) + 1)] :
                      e \in EngineReplies(d, EngineArgs(memory, argc, argv, argvlen))})

\* rliteConnect, lib.rs:96: a handle, or the null sentinel.
rliteConnect(fresh) == {NULL, fresh}

(***************************************************************************)
(* Locations.  B_memory is the literal ":memory:" of lib.rs:111.  The      *)
(* literal is passed by as_ptr() without a terminating zero byte, so the   *)
(* engine reads a C string made of the literal and of whatever bytes       *)
(* follow it in memory up to the next zero byte.  Of the outcomes, the     *)
(* model keeps two: the engine opens the transient store, or it fails and *)
(* returns the null sentinel (rliteConnect below).                         *)
(***************************************************************************)
B_memory == <<58, 109, 101, 109, 111, 114, 121, 58>>
P1 == <<100, 98>>
P_nul == <<100, 0, 98>>
P_bad == <<255>>
Paths == {P1, P_nul, P_bad}
Locs == {B_memory, P1}

\* Path::to_str, lib.rs:117: Some exactly for UTF-8 paths.
to_str(path) == from_utf8(path).kind = "Ok"
\* CString::new(f), lib.rs:121: an error when f holds a zero byte.
HasNul(f) == \E i \in 1..Len(f) : f[i] = 0
CStringNew(f) == IF HasNul(f) THEN Err(f) ELSE Ok(f)

(***************************************************************************)
(* The state.                                                              *)
(*   cur          the number of connections constructed or attempted       *)
(*   state        the lifecycle state of each of them                      *)
(*   rlite        the field Rlite.rlite of each (lib.rs:105)               *)
(*   loc          the location the current handle is bound to              *)
(*   db           the engine's database at each location                   *)
(*   heap         the reply records the engine allocated for the current   *)
(*                handle; a reply pointer is an index into it              *)
(*   queue        the engine's queue of unread replies (pointers)          *)
(*   freed        how often rliteFreeReplyObject was called per pointer    *)
(*   handleFreed  how often rliteFree was called per handle (0: null)      *)
(*   accepted     the commands the engine accepted on the current handle;  *)
(*                heap[i] is the reply record to accepted[i]               *)
(*   outcomes     what the read_reply calls that got a record ended in     *)
(*   origin       how the caller opened the current connection: B_memory   *)
(*                for Rlite::memory, the path for Rlite::file              *)
(*   written      per origin, the value the caller last had accepted by    *)
(*                `set` for each key (<<>>: none)                          *)
(*   last         the last operation: its result and foreign calls         *)
(*   nWrites, nReads   write_command and read_reply calls made so far       *)
(*   fault        a foreign call was made with a null handle               *)
(***************************************************************************)
VARIABLES cur, state, rlite, loc, db, heap, queue, freed, handleFreed,
          accepted, outcomes, origin, written, last, nWrites, nReads, fault

vars == <<cur, state, rlite, loc, db, heap, queue, freed, handleFreed,
          accepted, outcomes, origin, written, last, nWrites, nReads, fault>>

Conns == 1..MaxConns

Init ==
    /\ cur = 0
    /\ state = [c \in Conns |-> "Uninitialized"]
    /\ rlite = [c \in Conns |-> NULL]
    /\ loc = B_memory
    /\ db = [l \in Locs |-> EmptyDb]
    /\ heap = <<>>
    /\ queue = <<>>
    /\ freed = <<>>
    /\ handleFreed = [h \in 0..MaxConns |-> 0]
    /\ accepted = <<>>
    /\ outcomes = <<>>
    /\ origin = B_memory
    /\ written = [l \in Locs |-> EmptyDb]
    /\ last = [op |-> "none"]
    /\ nWrites = 0
    /\ nReads = 0
    /\ fault = FALSE

\* A new connection is constructed when none is alive: the model follows
\* the connections of one caller one after the other.
CanOpen ==
    /\ ~fault
    /\ cur < MaxConns
    /\ (cur > 0 => state[cur] # "Open")

IsOpen == ~fault /\ cur > 0 /\ state[cur] = "Open"

\* The effect of a connect that returned handle h at location l, for a
\* caller that asked for o: an empty queue, and a fresh database for the
\* transient store.
Connected(h, l, o) ==
    /\ loc' = l
    /\ origin' = o
    /\ written' = IF o = B_memory THEN [written EXCEPT ![o] = EmptyDb] ELSE written
    /\ accepted' = <<>>
    /\ db' = IF h # NULL /\ l = B_memory THEN [db EXCEPT ![l] = EmptyDb] ELSE db
    /\ heap' = <<>>
    /\ queue' = <<>>
    /\ freed' = <<>>
    /\ outcomes' = <<>>

\* Rlite::memory, lib.rs:110-113: the handle is stored unchecked.
MemoryResult(h) == [open |-> TRUE, rlite |-> h, result |-> Ok(h)]

\* The C string the engine reads at the pointer lib.rs:111 passes.
MemoryPath == B_memory

memory ==
    /\ CanOpen
    /\ \E h \in rliteConnect(cur + 1) :
          LET r == MemoryResult(h)
          IN  /\ cur' = cur + 1
              /\ state' = [state EXCEPT ![cur + 1] = "Open"]
              /\ rlite' = [rlite EXCEPT ![cur + 1] = r.rlite]
              /\ Connected(h, MemoryPath, B_memory)
              /\ last' = [op |-> "memory", result |-> r.result,
                          calls |-> <<"rliteConnect">>, handle |-> h]
    /\ UNCHANGED <<handleFreed, fault, nWrites, nReads>>

\* A variant of Rlite::file that connects to the transient store whatever
\* the path.
FileResult_IgnoresPath(path, h) ==
    IF ~to_str(path) THEN [open |-> FALSE, result |-> Err(Unit), calls |-> <<>>]
    ELSE IF unwrap(CStringNew(path)).kind = "Panic"
    THEN [open |-> FALSE, result |-> Panic, calls |-> <<>>]
    ELSE IF h # NULL
    THEN [open |-> TRUE, rlite |-> h, result |-> Ok(h),
          calls |-> <<"rliteConnect">>, cpath |-> B_memory]
    ELSE [open |-> FALSE, result |-> Err(Unit), calls |-> <<"rliteConnect">>]

\* Rlite::file, lib.rs:116-127.  h is what rliteConnect returns when the
\* call is reached.
FileResult(path, h) ==
    IF ~to_str(path) THEN [open |-> FALSE, result |-> Err(Unit), calls |-> <<>>]
    ELSE IF unwrap(CStringNew(path)).kind = "Panic"
    THEN [open |-> FALSE, result |-> Panic, calls |-> <<>>]
    ELSE IF h # NULL
    THEN [open |-> TRUE, rlite |-> h, result |-> Ok(h),
          calls |-> <<"rliteConnect">>, cpath |-> CStringNew(path).val]
    ELSE [open |-> FALSE, result |-> Err(Unit), calls |-> <<"rliteConnect">>]

file ==
    /\ CanOpen
    /\ \E path \in Paths, h \in rliteConnect(cur + 1) :
          LET r == FileResult(path, h)
          IN  /\ cur' = cur + 1
              /\ last' = [op |-> "file", result |-> r.result, calls |-> r.calls,
                          handle |-> IF r.calls = <<>> THEN NULL ELSE h,
                          path |-> path]
              /\ IF r.open
                 THEN /\ state' = [state EXCEPT ![cur + 1] = "Open"]
                      /\ rlite' = [rlite EXCEPT ![cur + 1] = r.rlite]
                      /\ Connected(h, r.cpath, path)
                 ELSE /\ UNCHANGED <<state, rlite, loc, db, heap, queue, freed,
                                     accepted, outcomes, origin, written>>
    /\ UNCHANGED <<handleFreed, fault, nWrites, nReads>>

(***************************************************************************)
(* Rlite::write_command, lib.rs:131-145.                                   *)
(***************************************************************************)
\* A variant of the encoding whose count leaves out the last argument.
EncodeCommand_DropsLastArg(command) ==
    [argc |-> IF Len(command) = 0 THEN 0 ELSE Len(command) - 1,
     argv |-> [i \in 1..Len(command) |-> i],
     argvlen |-> [i \in 1..Len(command) |-> Len(command[i])]]

\* lib.rs:132-137: argv[i] is the address of the i-th argument (as_ptr) and
\* argvlen[i] its length; lib.rs:139 passes command.len() as argc.  The
\* caller's memory holds the i-th argument at address i.
EncodeCommand(command) ==
    [argc |-> Len(command),
     argv |-> [i \in 1..Len(command) |-> i],
     argvlen |-> [i \in 1..Len(command) |-> Len(command[i])]]

\* A variant of write_command that ignores the engine's status.
WriteResult_IgnoresStatus(status) == Ok(Unit)

\* lib.rs:139-143.
WriteResult(status) == IF status = 0 THEN Ok(Unit) ELSE Err(Unit)

write_command ==
    /\ IsOpen
    /\ nWrites < MaxWrites
    /\ nWrites' = nWrites + 1
    /\ \E command \in Commands :
          LET enc == EncodeCommand(command)
          IN  IF rlite[cur] = NULL
              THEN /\ fault' = TRUE
                   /\ last' = [op |-> "write_command", result |-> Panic,
                               calls |-> <<"rliteAppendCommandArgv">>,
                               command |-> command, enc |-> enc]
                   /\ UNCHANGED <<db, heap, queue, accepted, written>>
              ELSE \E e \in rliteAppendCommandArgv(db[loc], heap, queue, command,
                                                  enc.argc, enc.argv, enc.argvlen) :
                      /\ db' = [db EXCEPT ![loc] = e.db]
                      /\ heap' = e.heap
                      /\ queue' = e.queue
                      /\ accepted' = IF e.status = 0 THEN Append(accepted, command)
                                     ELSE accepted
                      /\ written' = IF e.status = 0 /\ command[1] = B_set
                                    THEN [written EXCEPT ![origin][command[2]] =
                                                            <<command[3]>>]
                                    ELSE written
                      /\ last' = [op |-> "write_command",
                                  result |-> WriteResult(e.status),
                                  calls |-> <<"rliteAppendCommandArgv">>,
                                  command |-> command, enc |-> enc,
                                  status |-> e.status]
                      /\ UNCHANGED fault
    /\ freed' = [p \in 1..Len(heap') |-> IF p <= Len(freed) THEN freed[p] ELSE 0]
    /\ UNCHANGED <<cur, state, rlite, loc, handleFreed, outcomes, origin, nReads>>

\* A variant of read_reply that reports a null reply as an error.
ReadReply_NullIsError(status, reply, h) ==
    IF status = 0 /\ reply # NULL
    THEN LET r == ReplyNew(h[reply])
         IN  IF r.res.kind = "Panic"
             THEN [result |-> Panic,
                   calls |-> <<"rliteGetReply", "Reply::new">>]
             ELSE [result |-> r.res,
                   calls |-> <<"rliteGetReply", "Reply::new",
                               "rliteFreeReplyObject">>]
    ELSE [result |-> Err(B_Failed), calls |-> <<"rliteGetReply">>]

\* A variant of read_reply that releases the handle when retrieval fails.
ReadReply_FreesHandleOnFailure(status, reply, h) ==
    IF status = 0
    THEN IF reply = NULL
         THEN [result |-> Ok(Nil), calls |-> <<"rliteGetReply">>]
         ELSE LET r == ReplyNew(h[reply])
              IN  IF r.res.kind = "Panic"
                  THEN [result |-> Panic,
                        calls |-> <<"rliteGetReply", "Reply::new">>]
                  ELSE [result |-> r.res,
                        calls |-> <<"rliteGetReply", "Reply::new",
                                    "rliteFreeReplyObject">>]
    ELSE [result |-> Err(B_Failed), calls |-> <<"rliteGetReply", "rliteFree">>]

\* A variant of read_reply that swallows the decoder's error and reports
\* Nil.
ReadReply_SwallowsDecodeError(status, reply, h) ==
    IF status = 0
    THEN IF reply = NULL
         THEN [result |-> Ok(Nil), calls |-> <<"rliteGetReply">>]
         ELSE LET r == ReplyNew(h[reply])
              IN  IF r.res.kind = "Panic"
                  THEN [result |-> Panic,
                        calls |-> <<"rliteGetReply", "Reply::new">>]
                  ELSE [result |-> IF r.res.kind = "Err" THEN Ok(Nil) ELSE r.res,
                        calls |-> <<"rliteGetReply", "Reply::new",
                                    "rliteFreeReplyObject">>]
    ELSE [result |-> Err(B_Failed), calls |-> <<"rliteGetReply">>]

\* A variant of read_reply whose null check is inverted: a record that is
\* there is reported as Nil, neither decoded nor released.
ReadReply_InvertedNullCheck(status, reply, h) ==
    IF status = 0
    THEN IF reply # NULL
         THEN [result |-> Ok(Nil), calls |-> <<"rliteGetReply">>]
         ELSE [result |-> Panic, calls |-> <<"rliteGetReply", "Reply::new">>]
    ELSE [result |-> Err(B_Failed), calls |-> <<"rliteGetReply">>]

(***************************************************************************)
(* Rlite::read_reply, lib.rs:150-164, after rliteGetReply returned status  *)
(* and stored reply: the result, and the calls made in order.  h is the    *)
(* engine's heap of reply records.                                         *)
(***************************************************************************)
ReadReply(status, reply, h) ==
    IF status = 0
    THEN IF reply = NULL
         THEN [result |-> Ok(Nil), calls |-> <<"rliteGetReply">>]
         ELSE LET r == ReplyNew(h[reply])
              IN  IF r.res.kind = "Panic"
                  THEN [result |-> Panic,
                        calls |-> <<"rliteGetReply", "Reply::new">>]
                  ELSE [result |-> r.res,
                        calls |-> <<"rliteGetReply", "Reply::new",
                                    "rliteFreeReplyObject">>]
    ELSE [result |-> Err(B_Failed), calls |-> <<"rliteGetReply">>]

\* The number of times s names the call c.
RECURSIVE Count(_, _)
Count(s, c) ==
    IF s = <<>> THEN 0
    ELSE (IF Head(s) = c THEN 1 ELSE 0) + Count(Tail(s), c)

read_reply ==
    /\ IsOpen
    /\ nReads < MaxReads
    /\ nReads' = nReads + 1
    /\ IF rlite[cur] = NULL
       THEN /\ fault' = TRUE
            /\ last' = [op |-> "read_reply", result |-> Panic,
                        calls |-> <<"rliteGetReply">>]
            /\ UNCHANGED <<queue, freed, outcomes>>
       ELSE \E g \in rliteGetReply(queue) :
               LET r == ReadReply(g.status, g.reply, heap)
               IN  /\ queue' = g.queue
                   /\ freed' = IF g.reply = NULL THEN freed
                               ELSE [freed EXCEPT ![g.reply] =
                                       @ + Count(r.calls, "rliteFreeReplyObject")]
                   /\ outcomes' = IF g.status = 0 /\ g.reply # NULL
                                  THEN Append(outcomes, r.result)
                                  ELSE outcomes
                   /\ last' = [op |-> "read_reply", result |-> r.result,
                               calls |-> r.calls, status |-> g.status,
                               reply |-> g.reply]
                   /\ UNCHANGED fault
    /\ handleFreed' = [handleFreed EXCEPT ![rlite[cur]] =
                         @ + Count(last'.calls, "rliteFree")]
    /\ UNCHANGED <<cur, state, rlite, loc, db, heap, accepted, origin, written,
                   nWrites>>

(***************************************************************************)
(* Drop for Rlite, lib.rs:167-171.                                         *)
(***************************************************************************)
DropCalls(h) == <<"rliteFree">>

\* rliteFree releases what the engine holds for the handle: its queue and
\* the reply records in it.
drop ==
    /\ IsOpen
    /\ state' = [state EXCEPT ![cur] = "Closed"]
    /\ handleFreed' = [handleFreed EXCEPT ![rlite[cur]] =
                         @ + Count(DropCalls(rlite[cur]), "rliteFree")]
    /\ fault' = (rlite[cur] = NULL)
    /\ heap' = <<>>
    /\ queue' = <<>>
    /\ freed' = <<>>
    /\ accepted' = <<>>
    /\ outcomes' = <<>>
    /\ last' = [op |-> "drop", result |-> Ok(Unit),
                calls |-> DropCalls(rlite[cur]), handle |-> rlite[cur]]
    /\ UNCHANGED <<cur, rlite, loc, db, origin, written, nWrites, nReads>>

Next == memory \/ file \/ write_command \/ read_reply \/ drop

Spec == Init /\ [][Next]_vars

(***************************************************************************)
(* Reply::new on its own.  The decoder is a function of the record it is   *)
(* given (lib.rs:64-91), so its claims are checked over records the main   *)
(* specification's engine does not produce: integers over the whole range, *)
(* status text of every UTF-8 shape, and arrays, flat and nested, of up to *)
(* MaxElems children.  The record sits at address 1 of heap, and decode    *)
(* applies Reply::new to it, and read_reply's handling of it.              *)
(***************************************************************************)
MaxElems == 2

\* The children an array is built from: data, an integer, nil, an engine
\* error, status text that is not UTF-8, an unknown tag.
ElemLeaves ==
    {StringRec(V1), IntegerRec(U64(2)), NilRec, ErrorRec(B_PingErr),
     StatusRec(<<195>>), TagRec(7)}

\* The integer field: 0, 2, 2^16, 2^63 - 1, 2^63, 2^63 + 1, 2^64 - 2^48,
\* 2^64 - 1.
IntInputs ==
    {U64(0), U64(2), <<0, 0, 1, 0>>, <<32767, 65535, 65535, 65535>>, U64Top,
     <<32768, 0, 0, 1>>, <<65535, 0, 0, 0>>, U64Max}

\* Text: empty, ASCII, a zero byte, two- and three-byte UTF-8 sequences,
\* and bytes that are not UTF-8 (a lone lead byte, 0xFF, an encoded
\* surrogate, a lone continuation byte after ASCII).
TextInputs ==
    {<<>>, B_OK, B_PONG, <<0>>, <<195, 169>>, <<226, 130, 172>>,
     <<195>>, <<255>>, <<237, 160, 128>>, <<79, 128>>}

TopLeaves ==
    {IntegerRec(u) : u \in IntInputs}
      \cup {StatusRec(s) : s \in TextInputs}
      \cup {ErrorRec(s) : s \in TextInputs}
      \cup {StringRec(s) : s \in TextInputs}
      \cup {TagRec(t) : t \in {0, 7, -1}}

SeqsUpTo(S, n) == UNION {[1..m -> S] : m \in 0..n}

FlatArrays == {ArrayRec(e) : e \in SeqsUpTo(ElemLeaves, MaxElems)}

NestedArrays ==
    {ArrayRec(<<a>>) : a \in FlatArrays}
      \cup {ArrayRec(<<a, l>>) : a \in FlatArrays, l \in ElemLeaves}
      \cup {ArrayRec(<<l, a>>) : a \in FlatArrays, l \in ElemLeaves}
      \cup {ArrayRec(<<ArrayRec(<<a>>)>>) : a \in FlatArrays}

DecoderInputs == TopLeaves \cup ElemLeaves \cup FlatArrays \cup NestedArrays

InitDecode ==
    /\ cur = 0
    /\ state = [c \in Conns |-> "Uninitialized"]
    /\ rlite = [c \in Conns |-> NULL]
    /\ loc = B_memory
    /\ db = [l \in Locs |-> EmptyDb]
    /\ heap \in {<<r>> : r \in DecoderInputs}
    /\ queue = <<>>
    /\ freed = <<0>>
    /\ handleFreed = [h \in 0..MaxConns |-> 0]
    /\ accepted = <<>>
    /\ outcomes = <<>>
    /\ origin = B_memory
    /\ written = [l \in Locs |-> EmptyDb]
    /\ last = [op |-> "none"]
    /\ nWrites = 0
    /\ nReads = 0
    /\ fault = FALSE

decode ==
    /\ last.op = "none"
    /\ Len(heap) = 1
    /\ last' = [op |-> "Reply::new", reply |-> 1,
                decoded |-> ReplyNew(heap[1]),
                read |-> ReadReply(0, 1, heap)]
    /\ freed' = [freed EXCEPT ![1] =
                   @ + Count(last'.read.calls, "rliteFreeReplyObject")]
    /\ UNCHANGED <<cur, state, rlite, loc, db, heap, queue, handleFreed,
                   accepted, outcomes, origin, written, nWrites, nReads, fault>>

SpecDecode == InitDecode /\ [][decode]_vars

(***************************************************************************)
(* Properties.                                                             *)
(***************************************************************************)
\* The last operation was a read_reply on a live handle.
LastRead == last.op = "read_reply" /\ ~fault
\* ... in which the engine reported success and handed back a record.
LastGotRecord == LastRead /\ last.status = 0 /\ last.reply # NULL
\* The last operation was a write_command on a live handle.
LastWrite == last.op = "write_command" /\ ~fault

\* C1: on the current connection the replies are retrieved in submission
\* order: the k-th read_reply that retrieved a record ended in the decoding
\* of the reply record to the k-th accepted command, and the replies still
\* pending are those of the later commands, in order; also when several
\* commands were submitted before any reply was read.
C1_Fifo ==
    /\ Len(heap) = Len(accepted)
    /\ Len(outcomes) <= Len(heap)
    /\ \A k \in 1..Len(outcomes) : outcomes[k] = ReplyNew(heap[k]).res
    /\ queue = [i \in 1..(Len(heap) - Len(outcomes)) |-> Len(outcomes) + i]
    /\ LastGotRecord =>
          /\ last.reply = Len(outcomes)
          /\ last.result = outcomes[Len(outcomes)]

\* Two commands with different replies were submitted, and then the first
\* reply was read while the second was still pending.
C1_Witness ==
    /\ LastGotRecord
    /\ last.reply = 1
    /\ Len(heap) = 2
    /\ queue = <<2>>
    /\ ReplyNew(heap[1]).res # ReplyNew(heap[2]).res
    /\ last.result = Ok(Status(B_OK))

\* C2 (as claimed): every read_reply in which the engine reported success
\* and handed back a non-null record released that record exactly once,
\* after decoding; no record is released twice, no retrieved record is left
\* unreleased, and nothing is released for a null reply or a failed
\* retrieval.
C2_ReleasedExactlyOnce ==
    /\ \A p \in 1..Len(heap) :
          freed[p] = IF p <= Len(outcomes) THEN 1 ELSE 0
    /\ LastRead =>
          last.calls = IF last.status = 0 /\ last.reply # NULL
                       THEN <<"rliteGetReply", "Reply::new", "rliteFreeReplyObject">>
                       ELSE <<"rliteGetReply">>

\* C3 (as claimed): every connection owns one engine handle, which is
\* released exactly once, at teardown, and rliteFree is never called for a
\* handle the engine did not hand out.
C3_HandleFreedExactlyOnce ==
    /\ \A c \in Conns :
          /\ state[c] = "Open" => rlite[c] = c /\ handleFreed[c] = 0
          /\ state[c] = "Closed" => rlite[c] = c /\ handleFreed[c] = 1
          /\ state[c] = "Uninitialized" => handleFreed[c] = 0
    /\ handleFreed[NULL] = 0

\* C4 (as claimed): when the fetched record carries the error tag,
\* read_reply returns an error value carrying the record's message text,
\* and never a Reply value.
C4_ErrorReplyIsErr ==
    (LastGotRecord /\ heap[last.reply].rtype = RLITE_REPLY_ERROR) =>
        last.result = Err(heap[last.reply].st)

\* C5: round trip.  Whenever `set k v` and then `get k` were accepted one
\* after the other on the current connection and their two replies were
\* read, the first read ended in Status("OK") and the second in Data(v),
\* the bytes of v unchanged.
C5_RoundTrip ==
    \A i \in 1..(Len(accepted) - 1) : \A k \in Keys, v \in Values :
        (/\ accepted[i] = <<B_set, k, v>>
         /\ accepted[i + 1] = <<B_get, k>>
         /\ Len(outcomes) >= i + 1)
        => /\ outcomes[i] = Ok(Status(B_OK))
           /\ outcomes[i + 1] = Ok(Data(v))

\* `set k V2` and `get k` were pipelined and both replies read; V2 holds a
\* zero byte and a byte that is not UTF-8.
C5_Witness ==
    /\ accepted = <<(<<B_set, K1, V2>>), (<<B_get, K1>>)>>
    /\ outcomes = <<Ok(Status(B_OK)), Ok(Data(<<0, 255>>))>>

\* C6: persistence.  On a connection opened with Rlite::file at a location,
\* a `get k` that follows no `set k` of the same connection is answered by
\* the value last written to k at that location by the earlier
\* connections: its reply decodes to Data of exactly that value (to Nil
\* when there was none).
SetsBefore(i, k) ==
    {j \in 1..(i - 1) : accepted[j][1] = B_set /\ accepted[j][2] = k}

C6_Persistence ==
    (origin # B_memory) =>
        \A i \in 1..Len(outcomes) : \A k \in Keys :
            (accepted[i] = <<B_get, k>> /\ SetsBefore(Len(accepted) + 1, k) = {})
            => outcomes[i] = IF written[origin][k] = <<>> THEN Ok(Nil)
                             ELSE Ok(Data(written[origin][k][1]))

\* A first connection at P1 was torn down, and a second connection opened
\* at P1, on which nothing was set, read back Data(V2).
C6_Witness ==
    /\ cur = 2
    /\ state[1] = "Closed"
    /\ state[2] = "Open"
    /\ origin = P1
    /\ accepted = <<(<<B_get, K1>>)>>
    /\ outcomes = <<Ok(Data(V2))>>

\* C7 (as claimed): Rlite::memory always yields an Open connection that
\* holds a valid handle, never the null sentinel.
C7_MemoryNeverNull ==
    (last.op = "memory") =>
        /\ state[cur] = "Open"
        /\ last.result.kind = "Ok"
        /\ rlite[cur] # NULL

\* C8 (as claimed): Rlite::file returns an error value and creates no
\* connection when the location cannot be represented as the foreign path
\* type and when the engine returns its null sentinel, and returns Ok with
\* an Open connection exactly when the engine returned a handle.
Representable(path) == to_str(path) /\ ~HasNul(path)

C8_FileErrors ==
    (last.op = "file") =>
        /\ ~Representable(last.path) =>
              last.result = Err(Unit) /\ state[cur] = "Uninitialized"
        /\ (Representable(last.path) /\ last.handle = NULL) =>
              last.result = Err(Unit) /\ state[cur] = "Uninitialized"
        /\ (last.result.kind = "Ok") <=> (last.handle # NULL)
        /\ (last.result.kind = "Ok") <=> (state[cur] = "Open")
        /\ (last.result.kind = "Ok") => rlite[cur] = last.handle

\* C9: a write_command the engine rejects (non-zero status) returns an
\* error and changes nothing else: the connection stays Open, and the
\* engine's database, its reply records and its queue of unread replies are
\* as before, so later reads and writes go on as if the call had not been
\* made.
RejectedStep == nWrites' = nWrites + 1 /\ ~fault' /\ last'.status # 0

C9_RejectedSubmissionFrame ==
    [][RejectedStep =>
          /\ last'.result = Err(Unit)
          /\ last'.calls = <<"rliteAppendCommandArgv">>
          /\ state[cur] = "Open"
          /\ UNCHANGED <<cur, state, rlite, loc, db, heap, queue, freed,
                         handleFreed, accepted, outcomes, origin, written,
                         nReads, fault>>]_vars

\* A command with arguments was rejected while a reply was pending.
C9_Witness ==
    /\ LastWrite
    /\ last.status # 0
    /\ last.command # <<>>
    /\ last.result = Err(Unit)
    /\ queue # <<>>
    /\ state[cur] = "Open"

\* C10: a reply record whose first undecodable node, in wire order, is a
\* node of unknown tag t (the record itself, or a node nested in arrays
\* whose earlier children all decode) makes read_reply return the error
\* "Unknown reply type t": no value and no panic.  The record is released,
\* the connection stays Open and the later replies stay queued in order.
KnownTag(t) == t >= RLITE_REPLY_STRING /\ t <= RLITE_REPLY_ERROR

RECURSIVE FirstUnknown(_)
RECURSIVE FirstUnknownIn(_, _)
\* <<t>> when the first node of r that does not decode has the unknown tag
\* t, <<>> otherwise.
FirstUnknown(r) ==
    IF ~KnownTag(r.rtype) THEN <<r.rtype>>
    ELSE IF r.rtype = RLITE_REPLY_ARRAY THEN FirstUnknownIn(r.element, 1)
    ELSE <<>>
FirstUnknownIn(e, i) ==
    IF i > Len(e) THEN <<>>
    ELSE IF ReplyNew(e[i]).res.kind = "Ok" THEN FirstUnknownIn(e, i + 1)
    ELSE FirstUnknown(e[i])

C10_UnknownTagIsDecodeError ==
    /\ \A k \in 1..Len(outcomes) :
          FirstUnknown(heap[k]) # <<>> =>
              outcomes[k] = Err(B_Unknown \o Display(FirstUnknown(heap[k])[1]))
    /\ (LastGotRecord /\ FirstUnknown(heap[last.reply]) # <<>>) =>
          /\ last.result = Err(B_Unknown \o Display(FirstUnknown(heap[last.reply])[1]))
          /\ state[cur] = "Open"
          /\ freed[last.reply] = 1
          /\ queue = [i \in 1..(Len(heap) - last.reply) |-> last.reply + i]

\* A record with an unknown tag nested two arrays deep was fetched while a
\* later reply was pending.
C10_Witness ==
    /\ LastGotRecord
    /\ heap[last.reply].rtype = RLITE_REPLY_ARRAY
    /\ FirstUnknown(heap[last.reply]) = <<9>>
    /\ last.result = Err(B_Unknown \o <<57>>)
    /\ queue # <<>>

\* A record whose own tag is unknown was fetched, and the reply after it
\* was then read as the reply to the next command.
C10_WitnessTopLevel ==
    /\ Len(outcomes) = 2
    /\ heap[1].rtype = 7
    /\ outcomes[1] = Err(B_Unknown \o <<55>>)
    /\ outcomes[2] = Ok(Status(B_PONG))

\* C11 (as claimed): the error value read_reply returns on a retrieval
\* failure (non-zero status) differs from every error value a decoded reply
\* record ended in, engine error message or unknown-tag error.
RetrievalFailure == ReadReply(-1, NULL, heap).result

C11_FailureDistinctFromDecodeErrors ==
    /\ RetrievalFailure.kind = "Err"
    /\ \A k \in 1..Len(outcomes) :
          outcomes[k].kind = "Err" => outcomes[k] # RetrievalFailure
    /\ (LastRead /\ last.status # 0) => last.result = RetrievalFailure

\* C12: a read_reply to which the engine reports success and a null reply
\* returns Ok(Nil) from that one engine call, releases nothing and changes
\* nothing: the connection stays Open, and the engine's records, queue and
\* database are as before.  Once every reply has been read, each further
\* read_reply the engine does not fail ends this way, however many there
\* are.
ReadStep == nReads' = nReads + 1 /\ ~fault'
NullReplyStep == ReadStep /\ last'.status = 0 /\ last'.reply = NULL

C12_NullReplyIsNil ==
    [][/\ NullReplyStep =>
            /\ last'.result = Ok(Nil)
            /\ last'.calls = <<"rliteGetReply">>
            /\ state'[cur] = "Open"
            /\ UNCHANGED <<cur, state, rlite, loc, db, heap, queue, freed,
                           handleFreed, accepted, outcomes, origin, written,
                           nWrites, fault>>
       /\ (ReadStep /\ queue = <<>> /\ last'.status = 0) => NullReplyStep]_vars

\* One command was submitted and its reply read; a further read_reply got
\* the null reply and returned Ok(Nil).
C12_Witness ==
    /\ LastRead
    /\ last.status = 0
    /\ last.reply = NULL
    /\ last.result = Ok(Nil)
    /\ Len(accepted) = 1
    /\ Len(outcomes) = 1
    /\ nReads = 2

\* C13: every connection moves Uninitialized -> Open -> Closed and in no
\* other way, and nothing leaves Closed; each write_command and read_reply
\* is made on an Open connection, which it leaves Open; and every engine
\* call made with a handle (submission, retrieval, teardown) is made with a
\* handle that rliteFree was not called for before.
AllowedMove(a, b) ==
    \/ a = b
    \/ a = "Uninitialized" /\ b = "Open"
    \/ a = "Open" /\ b = "Closed"

MethodStep == nWrites' # nWrites \/ nReads' # nReads
TeardownStep == cur > 0 /\ state[cur] = "Open" /\ state'[cur] = "Closed"

C13_Lifecycle ==
    [][/\ \A c \in Conns : AllowedMove(state[c], state'[c])
       /\ MethodStep =>
             /\ cur > 0
             /\ state[cur] = "Open"
             /\ state'[cur] = "Open"
             /\ cur' = cur /\ rlite' = rlite
       /\ (MethodStep \/ TeardownStep) => handleFreed[rlite[cur]] = 0
       /\ \A c \in Conns :
             state[c] = "Closed" => rlite'[c] = rlite[c] /\ c # cur']_vars

\* A first connection was used and torn down, its handle released; a
\* second one was opened with another handle and is in use.
C13_Witness ==
    /\ cur = 2
    /\ state = <<"Closed", "Open">>
    /\ rlite = <<1, 2>>
    /\ handleFreed[1] = 1
    /\ handleFreed[2] = 0
    /\ LastRead
    /\ nWrites = 2

\* C14: a `get k` for a key that was never set at the store the connection
\* reads is answered by a nil record, and the read_reply that fetches it
\* returns exactly Ok(Nil): not an error, and not Data of no bytes.
C14_GetMissingIsNil ==
    \A i \in 1..Len(outcomes) : \A k \in Keys :
        (accepted[i] = <<B_get, k>> /\ written[origin][k] = <<>>)
        => /\ heap[i].rtype = RLITE_REPLY_NIL
           /\ outcomes[i] = Ok(Nil)
           /\ outcomes[i] # Ok(Data(<<>>))
           /\ outcomes[i].kind # "Err"

\* K1 was set and K2 was not; the reply to `get K2` was fetched as a
\* record and decoded to Nil.
C14_Witness ==
    /\ accepted = <<(<<B_set, K1, V1>>), (<<B_get, K2>>)>>
    /\ LastGotRecord
    /\ last.reply = 2
    /\ heap[2] = NilRec
    /\ last.result = Ok(Nil)

\* The record given to Reply::new in SpecDecode was decoded.
DecodedRecord == last.op = "Reply::new"
DecodedArray == DecodedRecord /\ heap[1].rtype = RLITE_REPLY_ARRAY

\* C15: decoding an array decodes its children in wire order and stops at
\* the first child that does not decode, at any depth: the result is that
\* child's result (the error of the error-tagged or unknown-tagged node
\* reached first in wire order) and not an Array of the earlier children,
\* and Reply::new was called for the array, for the children up to the
\* failing one and for what these called, and for no sibling after it.
RECURSIVE FirstFailing(_, _)
\* The index of the first child from i on that does not decode, 0 if none.
FirstFailing(e, i) ==
    IF i > Len(e) THEN 0
    ELSE IF ReplyNew(e[i]).res.kind # "Ok" THEN i
    ELSE FirstFailing(e, i + 1)

RECURSIVE CallsUpTo(_, _)
\* The calls of Reply::new for the children 1..j.
CallsUpTo(e, j) ==
    IF j = 0 THEN 0 ELSE CallsUpTo(e, j - 1) + ReplyNew(e[j]).calls

RECURSIVE FirstFailingNode(_)
\* The node of r, not an array, at which decoding in wire order fails.
FirstFailingNode(r) ==
    IF r.rtype = RLITE_REPLY_ARRAY
    THEN FirstFailingNode(r.element[FirstFailing(r.element, 1)])
    ELSE r

C15_ArrayStopsAtFirstFailure ==
    DecodedArray =>
        LET e == heap[1].element
            j == FirstFailing(e, 1)
        IN  j # 0 =>
              /\ last.decoded.res = ReplyNew(e[j]).res
              /\ last.decoded.res = ReplyNew(FirstFailingNode(heap[1])).res
              /\ last.decoded.res.kind # "Ok"
              /\ last.decoded.calls = 1 + CallsUpTo(e, j)
              /\ last.read.result = last.decoded.res

\* An array whose first child is an array holding an error reply followed
\* by a node of unknown tag, and whose second child is data: the result is
\* the error, after three calls of Reply::new.
C15_Witness ==
    /\ DecodedArray
    /\ heap[1] = ArrayRec(<<ArrayRec(<<ErrorRec(B_PingErr), TagRec(7)>>),
                           StringRec(V1)>>)
    /\ last.decoded = Decoded(Err(B_PingErr), 3)

\* C16: an array record of n children that all decode is decoded to an
\* Array of exactly n values, the i-th being the decoding of the i-th
\* child, at any depth of nesting; an array of no children is decoded to
\* Array(<<>>), which is not Nil.
C16_ArrayInOrder ==
    DecodedArray =>
        LET e == heap[1].element
        IN  FirstFailing(e, 1) = 0 =>
              /\ last.decoded.res.kind = "Ok"
              /\ last.decoded.res.val.tag = "Array"
              /\ Len(last.decoded.res.val.items) = heap[1].elements
              /\ \A i \in 1..heap[1].elements :
                    last.decoded.res.val.items[i] = ReplyNew(e[i]).res.val
              /\ last.decoded.res.val # Nil
              /\ heap[1].elements = 0 => last.decoded.res = Ok(Array(<<>>))
              /\ last.read.result = last.decoded.res

\* An array nested in an array was decoded, every child in its place:
\* the first child is an array of two values, the second is nil.
C16_Witness ==
    /\ DecodedArray
    /\ heap[1] = ArrayRec(<<ArrayRec(<<StringRec(V1), IntegerRec(U64(2))>>),
                           NilRec>>)
    /\ last.decoded.res =
          Ok(Array(<<Array(<<Data(V1), Integer(AsI64(U64(2)))>>), Nil>>))

\* The array of no children was decoded to Array(<<>>).
C16_WitnessEmpty ==
    /\ DecodedArray
    /\ heap[1] = ArrayRec(<<>>)
    /\ last.decoded.res = Ok(Array(<<>>))

\* C17: a status record whose text bytes are not well-formed UTF-8 makes
\* Reply::new panic, and read_reply with it: the call returns neither a
\* Reply value nor an error value.  A status record whose text is UTF-8
\* always yields Status of exactly that text.
DecodedStatus == DecodedRecord /\ heap[1].rtype = RLITE_REPLY_STATUS
StatusText == SubSeq(heap[1].st, 1, heap[1].len)

C17_StatusText ==
    DecodedStatus =>
        IF from_utf8(StatusText).kind = "Ok"
        THEN /\ last.decoded.res = Ok(Status(StatusText))
             /\ last.read.result = Ok(Status(StatusText))
        ELSE /\ last.decoded.res = Panic
             /\ last.read.result = Panic
             /\ last.read.result.kind \notin {"Ok", "Err"}

\* A status record whose text is a lone UTF-8 lead byte was decoded, and
\* read_reply ended in the panic.
C17_Witness ==
    /\ DecodedStatus
    /\ heap[1] = StatusRec(<<195>>)
    /\ last.read.result = Panic

\* A status record of two-byte UTF-8 text was decoded to that text.
C17_WitnessValid ==
    /\ DecodedStatus
    /\ heap[1] = StatusRec(<<195, 169>>)
    /\ last.read.result = Ok(Status(<<195, 169>>))

\* C18: an integer record of unsigned field u is decoded to Integer(n)
\* with n = u when u < 2^63 and n = u - 2^64 when u >= 2^63 (the same 64
\* bits read as two's complement); no value of u is rejected, and small
\* counts come out unchanged.
DecodedInteger == DecodedRecord /\ heap[1].rtype = RLITE_REPLY_INTEGER

\* a + b = 2^64, for a and b below 2^64 in four 16-bit limbs.
SumIsTwoTo64(a, b) ==
    LET s4 == a[4] + b[4]
        s3 == a[3] + b[3] + (s4 \div Limb)
        s2 == a[2] + b[2] + (s3 \div Limb)
        s1 == a[1] + b[1] + (s2 \div Limb)
    IN  s4 % Limb = 0 /\ s3 % Limb = 0 /\ s2 % Limb = 0 /\ s1 = Limb

C18_IntegerCast ==
    DecodedInteger =>
        LET u == heap[1].integer
            r == last.decoded.res
        IN  /\ r.kind = "Ok"
            /\ r.val.tag = "Integer"
            /\ last.read.result = r
            /\ u[1] < 32768 => r.val.n = [neg |-> FALSE, mag |-> u]
            /\ u[1] >= 32768 =>
                  /\ r.val.n.neg
                  /\ SumIsTwoTo64(r.val.n.mag, u)
            /\ u = U64(2) => r.val = Integer([neg |-> FALSE, mag |-> U64(2)])

\* The field 2^64 - 1 was decoded to Integer(-1).
C18_Witness ==
    /\ DecodedInteger
    /\ heap[1].integer = U64Max
    /\ last.decoded.res = Ok(Integer([neg |-> TRUE, mag |-> U64(1)]))

\* The field 2^63 - 1 was decoded unchanged.
C18_WitnessMax ==
    /\ DecodedInteger
    /\ heap[1].integer = <<32767, 65535, 65535, 65535>>
    /\ last.decoded.res = Ok(Integer([neg |-> FALSE, mag |-> heap[1].integer]))

\* C19: every write_command makes exactly one submission call, with the
\* command's length as the argument count and, for each i, the address and
\* the length of the i-th argument as the i-th pointer/length pair, so that
\* what the engine reads through them is the command; it returns Ok
\* exactly when the engine's status is 0 and the error otherwise, from
\* that one call; and it reads and removes no reply: the replies read so
\* far, the records released and the pending replies are as before, but
\* for the one pending reply an accepted submission adds at the end.
WriteStep == nWrites' = nWrites + 1 /\ ~fault'

C19_OneSubmission ==
    [][WriteStep =>
          LET command == last'.command
              enc == last'.enc
          IN  /\ last'.calls = <<"rliteAppendCommandArgv">>
              /\ enc.argc = Len(command)
              /\ \A i \in 1..Len(command) :
                    /\ enc.argv[i] = i
                    /\ enc.argvlen[i] = Len(command[i])
              /\ EngineArgs(command, enc.argc, enc.argv, enc.argvlen) = command
              /\ (last'.result = Ok(Unit)) <=> (last'.status = 0)
              /\ (last'.result = Err(Unit)) <=> (last'.status # 0)
              /\ UNCHANGED <<outcomes, nReads, state, rlite, handleFreed>>
              /\ \A p \in 1..Len(heap) : heap'[p] = heap[p] /\ freed'[p] = freed[p]
              /\ IF last'.status = 0
                 THEN /\ Len(heap') = Len(heap) + 1
                      /\ freed'[Len(heap')] = 0
                      /\ queue' = Append(queue, Len(heap'))
                      /\ accepted' = Append(accepted, command)
                 ELSE /\ heap' = heap
                      /\ queue' = queue
                      /\ accepted' = accepted]_vars

\* A `set` of three arguments was accepted while the reply to an earlier
\* command was pending and unread: two replies are pending now.
C19_Witness ==
    /\ LastWrite
    /\ last.status = 0
    /\ last.command = <<B_set, K1, V2>>
    /\ last.enc.argc = 3
    /\ last.result = Ok(Unit)
    /\ queue = <<1, 2>>
    /\ outcomes = <<>>

\* C20: a read_reply whose record decodes to an error (an engine error
\* reply or an unknown tag, the record itself or a node nested in it)
\* consumes exactly that one reply: the call makes one retrieval, returns
\* that error and releases the record, and the queue after it is the queue
\* before it without its head.  So when the i-th read ended in such an
\* error, the read after it is given the reply to the next command, neither
\* the same record again nor the one after the next.
DecoderError(r) == ReplyNew(r).res.kind = "Err"

ErrorFetchStep ==
    /\ ReadStep
    /\ last'.status = 0
    /\ last'.reply # NULL
    /\ DecoderError(heap[last'.reply])

C20_ErrorConsumesOneReply ==
    [][/\ ErrorFetchStep =>
            /\ last'.reply = Head(queue)
            /\ queue' = Tail(queue)
            /\ last'.result = ReplyNew(heap[last'.reply]).res
            /\ last'.calls = <<"rliteGetReply", "Reply::new", "rliteFreeReplyObject">>
            /\ freed'[last'.reply] = 1
            /\ outcomes' = Append(outcomes, last'.result)
            /\ UNCHANGED <<heap, accepted, state>>
       /\ (ReadStep /\ last'.status = 0 /\ last'.reply # NULL
             /\ outcomes # <<>> /\ DecoderError(heap[Len(outcomes)])) =>
            /\ outcomes[Len(outcomes)] = ReplyNew(heap[Len(outcomes)]).res
            /\ last'.reply = Len(outcomes) + 1
            /\ last'.result = ReplyNew(heap[Len(outcomes) + 1]).res]_vars

\* The reply to the first command was an engine error and the read of it
\* returned that error; the next read returned the reply to the second
\* command.
C20_Witness ==
    /\ accepted = <<(<<B_ping, B_1, B_2>>), (<<B_ping>>)>>
    /\ outcomes = <<Err(B_PingErr), Ok(Status(B_PONG))>>
    /\ LastGotRecord
    /\ last.reply = 2
    /\ queue = <<>>

=============================================================================
